---- MODULE Spec2Model ----
(***************************************************************************)
(* Model of pgn_translator.py: the PGNTranslator class (constructor,       *)
(* extract_comments, translate_text, translate_pgn, test_connection) and   *)
(* the command line driver main().                                         *)
(*                                                                         *)
(* Text is a sequence of one-character strings.  Offsets are Python        *)
(* offsets (0-based, end exclusive); the character at offset k of s is     *)
(* s[k + 1].                                                               *)
(***************************************************************************)
EXTENDS Integers, Sequences, FiniteSets, TLC

VARIABLES
    pc,                 \* position of main()
    test_flag,          \* args.test_connection
    files_given,        \* args.input_file and args.output_file both given
    api_url,            \* main's api_url, then self.api_url
    api_key,            \* args.api_key, then self.api_key
    is_offline,         \* self.is_offline
    prompted,           \* _prompt_for_api_key has run
    input_exists,       \* input_path.exists(): "unchecked", "yes", "no"
    probes,             \* test_connection calls made, in order
    was_read,           \* the input file has been read
    pgn_content,        \* translate_pgn: pgn_content
    comments,           \* translate_pgn: comments
    done,               \* translate_pgn: number of loop iterations finished
    translated_content, \* translate_pgn: translated_content
    requests,           \* POSTs sent to the translate endpoint, in order
    outcomes,           \* what the service did with each of them, in order
    returned,           \* what translate_text gave back for each of them
    output_file,        \* "untouched", "complete" or "partial"
    exit_code           \* process exit status once pc = "exited"

vars == <<pc, test_flag, files_given, api_url,
          api_key, is_offline, prompted, input_exists, probes, was_read,
          pgn_content, comments, done, translated_content, requests,
          outcomes, returned, output_file, exit_code>>

(***************************************************************************)
(* Bounds and input sets                                                   *)
(***************************************************************************)
MaxLen == 6

Alphabet == {"{", "}", "a", "b"}

\* "1.e4 {good} 1...e5 {bad}"
Example ==
    <<"1", ".", "e", "4", " ", "{", "g", "o", "o", "d", "}", " ",
      "1", ".", ".", ".", "e", "5", " ", "{", "b", "a", "d", "}">>

\* "1.e4 {open"
ExampleOpen == <<"1", ".", "e", "4", " ", "{", "o", "p", "e", "n">>

Texts ==
    UNION {[1..n -> Alphabet] : n \in 0..MaxLen} \cup {Example, ExampleOpen}

NoUrl == "None"
NoKey == "None"
OfflineUrl == "http://localhost:5000"
WebUrl == "https://libretranslate.com"
Urls == {OfflineUrl, WebUrl}
ConfiguredKey == "configured-key"
TypedKey == "typed-key"

(***************************************************************************)
(* Python values that translate_text can hand back                         *)
(***************************************************************************)
PyStr(s) == [type |-> "str", s |-> s, n |-> 0]
PyInt(n) == [type |-> "int", s |-> <<>>, n |-> n]
PyNone == [type |-> "NoneType", s |-> <<>>, n |-> 0]

\* bool(v)
Truthy(v) ==
    CASE v.type = "str" -> Len(v.s) > 0
      [] v.type = "int" -> v.n # 0
      [] OTHER -> FALSE

Digits == <<"0", "1", "2", "3", "4", "5", "6", "7", "8", "9">>

\* str(v) as the f-string formats it (single-digit integers only)
Format(v) ==
    CASE v.type = "str" -> v.s
      [] v.type = "int" -> <<Digits[v.n + 1]>>
      [] OTHER -> <<"N", "o", "n", "e">>

RECURSIVE Reverse(_)
Reverse(s) == IF s = <<>> THEN <<>> ELSE Reverse(Tail(s)) \o <<Head(s)>>

(***************************************************************************)
(* extract_comments: re.finditer(r'\{([^}]+)\}', pgn_content)              *)
(***************************************************************************)
\* offset of the first "}" at offset >= p, or -1
RECURSIVE FirstClose(_, _)
FirstClose(s, p) ==
    IF p >= Len(s) THEN -1
    ELSE IF s[p + 1] = "}" THEN p
    ELSE FirstClose(s, p + 1)

\* leftmost non-overlapping matches from offset p on
RECURSIVE FindIter(_, _)
FindIter(s, p) ==
    IF p >= Len(s) THEN <<>>
    ELSE IF s[p + 1] = "{"
         THEN LET j == FirstClose(s, p + 1) IN
              IF j >= p + 2
              THEN <<[text |-> SubSeq(s, p + 2, j), start |-> p, end |-> j + 1]>>
                   \o FindIter(s, j + 1)
              ELSE FindIter(s, p + 1)
         ELSE FindIter(s, p + 1)

\* a variant that also takes an open marker the text never closes
RECURSIVE FindIterUnclosed(_, _)
FindIterUnclosed(s, p) ==
    IF p >= Len(s) THEN <<>>
    ELSE IF s[p + 1] = "{"
         THEN LET j == FirstClose(s, p + 1) IN
              IF j >= p + 2
              THEN <<[text |-> SubSeq(s, p + 2, j), start |-> p, end |-> j + 1]>>
                   \o FindIterUnclosed(s, j + 1)
              ELSE IF j = -1 /\ p + 1 < Len(s)
              THEN <<[text |-> SubSeq(s, p + 2, Len(s)), start |-> p,
                      end |-> Len(s)]>>
              ELSE FindIterUnclosed(s, p + 1)
         ELSE FindIterUnclosed(s, p + 1)

extract_comments_Unclosed(content) == FindIterUnclosed(content, 0)

\* a variant whose end offset is that of the close marker itself
extract_comments_EndAtClose(content) ==
    [i \in 1..Len(FindIter(content, 0)) |->
        [FindIter(content, 0)[i] EXCEPT !.end = @ - 1]]

extract_comments(content) == FindIter(content, 0)

(***************************************************************************)
(* translate_text                                                          *)
(***************************************************************************)
\* what the service can do with the request for comment text t
Translations(t) ==
    {t, Reverse(t), <<>>, <<"x">>, t \o <<"x", "y">>, <<"}">>, <<"{", "x">>}

Outcomes(t) ==
    {[kind |-> "connection_error", body |-> PyNone],
     [kind |-> "timeout", body |-> PyNone],
     [kind |-> "status_500", body |-> PyNone],
     [kind |-> "status_403", body |-> PyNone],
     [kind |-> "bad_json", body |-> PyNone],
     [kind |-> "json_not_object", body |-> PyNone],
     [kind |-> "json_no_field", body |-> PyNone],
     [kind |-> "json_field", body |-> PyNone],
     [kind |-> "json_field", body |-> PyInt(0)],
     [kind |-> "json_field", body |-> PyInt(7)]}
    \cup {[kind |-> "json_field", body |-> PyStr(tr)] : tr \in Translations(t)}

\* the result of one call: raised = an exception left translate_text
translate_text(text, o) ==
    CASE o.kind \in {"connection_error", "timeout"} ->
            [raised |-> FALSE, value |-> PyStr(text)]
      [] o.kind \in {"status_500", "status_403"} ->
            [raised |-> FALSE, value |-> PyStr(text)]
      [] o.kind = "bad_json" ->
            [raised |-> FALSE, value |-> PyStr(text)]
      [] o.kind = "json_not_object" ->
            [raised |-> TRUE, value |-> PyNone]
      [] o.kind = "json_no_field" ->
            [raised |-> FALSE, value |-> PyStr(text)]
      [] OTHER ->
            [raised |-> FALSE, value |-> o.body]

\* the payload of the POST for text
Payload(text, key) == [q |-> text, has_key |-> key # NoKey]

(***************************************************************************)
(* translate_pgn                                                           *)
(***************************************************************************)
\* translated_text and translated_text != comment_text
ShouldSplice(v, comment_text) == Truthy(v) /\ v # PyStr(comment_text)

\* a variant that resumes the old text one character early
Splice_FromClose(content, start_pos, end_pos, v) ==
    SubSeq(content, 1, start_pos) \o <<"{">> \o Format(v) \o <<"}">>
    \o SubSeq(content, end_pos, Len(content))

\* a variant that does not re-emit the braces
Splice_NoBraces(content, start_pos, end_pos, v) ==
    SubSeq(content, 1, start_pos) \o Format(v)
    \o SubSeq(content, end_pos + 1, Len(content))

\* content[:start_pos] + "{" + translated + "}" + content[end_pos:]
Splice(content, start_pos, end_pos, v) ==
    SubSeq(content, 1, start_pos) \o <<"{">> \o Format(v) \o <<"}">>
    \o SubSeq(content, end_pos + 1, Len(content))

\* a variant that walks the spans front to back
ReversedAt_Forward(cs, i) == cs[i]

\* the i-th element of reversed(comments), i from 1
ReversedAt(cs, i) == cs[Len(cs) + 1 - i]

(***************************************************************************)
(* PGNTranslator.__init__ and its helpers                                  *)
(***************************************************************************)
\* _get_default_api_url: health is what GET localhost:5000/languages did
HealthOutcomes == {"200", "other_status", "exception"}

get_default_api_url(health) == IF health = "200" THEN OfflineUrl ELSE WebUrl

\* _is_offline_mode: 'localhost' in url or '127.0.0.1' in url
is_offline_mode(url) == url \in {OfflineUrl}

\* a variant that never asks
NeedsPrompt_Never(offline, key) == FALSE

\* if not self.is_offline and not self.api_key
NeedsPrompt(offline, key) == ~offline /\ key = NoKey

\* answers to _prompt_for_api_key
PromptAnswers == {"yes_with_key", "yes_empty_key", "no"}

(***************************************************************************)
(* test_connection                                                         *)
(***************************************************************************)
ProbeOutcomes == {"200", "403", "other_status", "exception"}

\* a variant that takes every answer of the service for a success
test_connection_AnyAnswer(offline, key, outcome) ==
    [sent_key |-> key # NoKey /\ ~offline,
     offline |-> offline,
     outcome |-> outcome,
     ok |-> outcome # "exception",
     report |->
        CASE outcome # "exception" -> "none"
          [] offline -> "cannot_connect_offline"
          [] OTHER -> "connection_error"]

test_connection(offline, key, outcome) ==
    [sent_key |-> key # NoKey /\ ~offline,
     offline |-> offline,
     outcome |-> outcome,
     ok |-> outcome = "200",
     report |->
        CASE outcome = "200" -> "none"
          [] outcome = "403" /\ ~offline -> "api_key_invalid_or_required"
          [] outcome \in {"403", "other_status"} -> "connection_test_failed"
          [] offline -> "cannot_connect_offline"
          [] OTHER -> "connection_error"]

(***************************************************************************)
(* main                                                                    *)
(***************************************************************************)
Exit(code) == pc' = "exited" /\ exit_code' = code

Init ==
    /\ pc = "parse"
    /\ test_flag = FALSE
    /\ files_given = FALSE
    /\ api_url = NoUrl
    /\ api_key = NoKey
    /\ is_offline = FALSE
    /\ prompted = FALSE
    /\ input_exists = "unchecked"
    /\ probes = <<>>
    /\ was_read = FALSE
    /\ pgn_content = <<>>
    /\ comments = <<>>
    /\ done = 0
    /\ translated_content = <<>>
    /\ requests = <<>>
    /\ outcomes = <<>>
    /\ returned = <<>>
    /\ output_file = "untouched"
    /\ exit_code = -1

\* parse_args and the force-mode flags
ParseArgs ==
    /\ pc = "parse"
    /\ \E url \in Urls \cup {NoUrl}, key \in {NoKey, ConfiguredKey},
          t \in BOOLEAN, f \in BOOLEAN, offline \in BOOLEAN, web \in BOOLEAN :
          /\ test_flag' = t
          /\ files_given' = f
          /\ IF offline /\ web
             THEN /\ Exit(2)
                  /\ UNCHANGED <<api_url, api_key>>
             ELSE /\ pc' = "construct"
                  /\ api_url' = IF offline THEN OfflineUrl
                                ELSE IF web THEN WebUrl ELSE url
                  /\ api_key' = key
                  /\ UNCHANGED exit_code
    /\ UNCHANGED <<is_offline, prompted, input_exists,
                   probes, was_read, pgn_content, comments, done,
                   translated_content, requests, outcomes, returned,
                   output_file>>

\* translator = PGNTranslator(api_url, args.api_key)
Construct ==
    /\ pc = "construct"
    /\ \E health \in HealthOutcomes, env_key \in {NoKey, ConfiguredKey},
          answer \in PromptAnswers :
          LET url == IF api_url # NoUrl THEN api_url
                     ELSE get_default_api_url(health)
              key == IF api_key # NoKey THEN api_key ELSE env_key
              offline == is_offline_mode(url)
          IN  /\ api_url' = url
              /\ is_offline' = offline
              /\ IF NeedsPrompt(offline, key)
                 THEN /\ prompted' = TRUE
                      /\ IF answer = "yes_with_key"
                         THEN /\ api_key' = TypedKey
                              /\ pc' = "constructed"
                              /\ UNCHANGED exit_code
                         ELSE /\ api_key' = key
                              /\ Exit(1)
                 ELSE /\ api_key' = key
                      /\ pc' = "constructed"
                      /\ UNCHANGED <<prompted, exit_code>>
    /\ UNCHANGED <<test_flag, files_given, input_exists, probes, was_read, pgn_content, comments,
                   done, translated_content, requests, outcomes, returned,
                   output_file>>

\* if args.test_connection: probe and exit
TestConnectionOnly ==
    /\ pc = "constructed"
    /\ test_flag
    /\ \E outcome \in ProbeOutcomes :
          LET p == test_connection(is_offline, api_key, outcome) IN
          /\ probes' = Append(probes, p)
          /\ Exit(IF p.ok THEN 0 ELSE 1)
    /\ UNCHANGED <<test_flag, files_given, api_url,
                   api_key, is_offline, prompted, input_exists, was_read,
                   pgn_content, comments, done, translated_content, requests,
                   outcomes, returned, output_file>>

\* required arguments and input_path.exists()
VerifyFiles ==
    /\ pc = "constructed"
    /\ ~test_flag
    /\ IF ~files_given
       THEN /\ Exit(2)
            /\ UNCHANGED input_exists
       ELSE \E e \in BOOLEAN :
               /\ input_exists' = IF e THEN "yes" ELSE "no"
               /\ IF e THEN pc' = "preflight" /\ UNCHANGED exit_code
                       ELSE Exit(1)
    /\ UNCHANGED <<test_flag, files_given, api_url,
                   api_key, is_offline, prompted, probes, was_read,
                   pgn_content, comments, done, translated_content, requests,
                   outcomes, returned, output_file>>

\* the pre-flight test_connection
Preflight ==
    /\ pc = "preflight"
    /\ \E outcome \in ProbeOutcomes :
          LET p == test_connection(is_offline, api_key, outcome) IN
          /\ probes' = Append(probes, p)
          /\ IF p.ok THEN pc' = "read" /\ UNCHANGED exit_code
                     ELSE Exit(1)
    /\ UNCHANGED <<test_flag, files_given, api_url,
                   api_key, is_offline, prompted, input_exists, was_read,
                   pgn_content, comments, done, translated_content, requests,
                   outcomes, returned, output_file>>

\* open(input_path).read()
ReadFile ==
    /\ pc = "read"
    /\ \/ /\ \E content \in Texts : pgn_content' = content
          /\ was_read' = TRUE
          /\ pc' = "translate"
          /\ UNCHANGED exit_code
       \/ /\ Exit(1)
          /\ UNCHANGED <<pgn_content, was_read>>
    /\ UNCHANGED <<test_flag, files_given, api_url,
                   api_key, is_offline, prompted, input_exists, probes,
                   comments, done, translated_content, requests, outcomes,
                   returned, output_file>>

\* translate_pgn up to the loop
TranslateBegin ==
    /\ pc = "translate"
    /\ comments' = extract_comments(pgn_content)
    /\ translated_content' = pgn_content
    /\ pc' = IF comments' = <<>> THEN "save" ELSE "loop"
    /\ UNCHANGED <<test_flag, files_given, api_url,
                   api_key, is_offline, prompted, input_exists, probes,
                   was_read, pgn_content, done, requests, outcomes, returned,
                   output_file, exit_code>>

\* one iteration of the loop over reversed(comments)
TranslateStep ==
    /\ pc = "loop"
    /\ LET c == ReversedAt(comments, done + 1) IN
       \E o \in Outcomes(c.text) :
          LET r == translate_text(c.text, o) IN
          /\ requests' = Append(requests, Payload(c.text, api_key))
          /\ outcomes' = Append(outcomes, o)
          /\ IF r.raised
             THEN /\ Exit(1)
                  /\ UNCHANGED <<returned, translated_content, done>>
             ELSE /\ returned' = Append(returned, r.value)
                  /\ translated_content' =
                        IF ShouldSplice(r.value, c.text)
                        THEN Splice(translated_content, c.start, c.end, r.value)
                        ELSE translated_content
                  /\ done' = done + 1
                  /\ pc' = IF done + 1 = Len(comments) THEN "save" ELSE "loop"
                  /\ UNCHANGED exit_code
    /\ UNCHANGED <<test_flag, files_given, api_url,
                   api_key, is_offline, prompted, input_exists, probes,
                   was_read, pgn_content, comments, output_file>>

\* open(output_path, 'w').write(translated_content)
SaveResult ==
    /\ pc = "save"
    /\ \E w \in {"ok", "open_fails", "write_fails"} :
          /\ output_file' = CASE w = "ok" -> "complete"
                              [] w = "open_fails" -> "untouched"
                              [] OTHER -> "partial"
          /\ Exit(IF w = "ok" THEN 0 ELSE 1)
    /\ UNCHANGED <<test_flag, files_given, api_url,
                   api_key, is_offline, prompted, input_exists, probes,
                   was_read, pgn_content, comments, done, translated_content,
                   requests, outcomes, returned>>

Next ==
    \/ ParseArgs
    \/ Construct
    \/ TestConnectionOnly
    \/ VerifyFiles
    \/ Preflight
    \/ ReadFile
    \/ TranslateBegin
    \/ TranslateStep
    \/ SaveResult

Spec == Init /\ [][Next]_vars

(***************************************************************************)
(* Vocabulary of the properties                                            *)
(***************************************************************************)
\* translate_pgn has been entered and extract_comments has run
Located == was_read /\ pc # "translate"

\* translate_pgn has returned
Completed == Located /\ pc \in {"save", "exited"} /\ done = Len(comments)

\* an exception left translate_pgn
Aborted == Located /\ pc = "exited" /\ done < Len(comments)

\* the outcome of the request for the i-th located span (i from 1, ascending)
OutcomeOf(i) == outcomes[Len(comments) + 1 - i]

\* the service answered the request with a translated-text string
Succeeded(o) == o.kind = "json_field" /\ o.body.type = "str"

HasChar(s, ch) == \E k \in 1..Len(s) : s[k] = ch

\* the text rebuilt front to back: what lies outside the spans, and repl[i]
\* between braces in place of span i
RECURSIVE Rebuild(_, _, _, _, _)
Rebuild(content, cs, repl, i, pos) ==
    IF i > Len(cs) THEN SubSeq(content, pos + 1, Len(content))
    ELSE SubSeq(content, pos + 1, cs[i].start) \o <<"{">> \o repl[i] \o <<"}">>
         \o Rebuild(content, cs, repl, i + 1, cs[i].end)

\* "1.e4 {doog} 1...e5 {dab}"
ExampleReversed ==
    <<"1", ".", "e", "4", " ", "{", "d", "o", "o", "g", "}", " ",
      "1", ".", ".", ".", "e", "5", " ", "{", "d", "a", "b", "}">>

AllSucceeded == \A k \in 1..Len(outcomes) : Succeeded(outcomes[k])

(***************************************************************************)
(* C1                                                                      *)
(***************************************************************************)
\* C1 as stated: when every request is answered with a translation, the
\* text translate_pgn returns is the input with each located span's content
\* replaced by the translation returned for it, between the same braces,
\* and everything outside the spans unchanged.
C1_Original ==
    (Completed /\ AllSucceeded) =>
        translated_content =
            Rebuild(pgn_content, comments,
                    [i \in 1..Len(comments) |-> OutcomeOf(i).body.s], 1, 0)

\* C1 amended: as C1, except that a span whose returned translation is the
\* empty string keeps its original content; a text without any comment
\* marker is returned unchanged.
C1_Splicing ==
    /\ (Completed /\ AllSucceeded) =>
          translated_content =
              Rebuild(pgn_content, comments,
                      [i \in 1..Len(comments) |->
                          IF OutcomeOf(i).body.s = <<>> THEN comments[i].text
                          ELSE OutcomeOf(i).body.s], 1, 0)
    /\ (Completed /\ ~HasChar(pgn_content, "{") /\ ~HasChar(pgn_content, "}")) =>
          translated_content = pgn_content
    /\ (Completed /\ pgn_content = Example
        /\ \A i \in 1..Len(comments) :
              OutcomeOf(i).body = PyStr(Reverse(comments[i].text))) =>
          translated_content = ExampleReversed

C1_Witness ==
    /\ Completed
    /\ pgn_content = Example
    /\ Len(comments) = 2
    /\ \A i \in 1..2 : OutcomeOf(i).body = PyStr(Reverse(comments[i].text))
    /\ translated_content = ExampleReversed

(***************************************************************************)
(* C2                                                                      *)
(***************************************************************************)
\* C2: with two or more spans and any outcome of each request, translate_pgn
\* runs to completion, and in its result exactly the spans whose request
\* failed keep their content while the others carry their translation.
C2_FailureIsolation ==
    (Located /\ Len(comments) >= 2) =>
        /\ ~Aborted
        /\ Completed =>
              translated_content =
                  Rebuild(pgn_content, comments,
                          [i \in 1..Len(comments) |->
                              IF Succeeded(OutcomeOf(i))
                              THEN OutcomeOf(i).body.s
                              ELSE comments[i].text], 1, 0)

(***************************************************************************)
(* C3                                                                      *)
(***************************************************************************)
\* C3: a call of translate_pgn on a text with N located spans has issued
\* exactly N requests when it ends, one per span, whatever the outcomes.
C3_OneRequestPerSpan ==
    (Located /\ pc = "exited") =>
        /\ Len(requests) = Len(comments)
        /\ \A k \in 1..Len(requests) :
              requests[k].q = ReversedAt(comments, k).text

(***************************************************************************)
(* C4                                                                      *)
(***************************************************************************)
\* C4: if the service returns every span's text unchanged the result equals
\* the input; and splicing a translation equal to the original in would
\* leave the buffer as it is, so skipping that splice changes nothing.
C4_RoundTrip ==
    /\ (Completed
        /\ \A i \in 1..Len(comments) :
              OutcomeOf(i) = [kind |-> "json_field",
                              body |-> PyStr(comments[i].text)]) =>
          translated_content = pgn_content
    /\ pc = "loop" =>
          LET c == ReversedAt(comments, done + 1) IN
          Splice(translated_content, c.start, c.end, PyStr(c.text))
              = translated_content

C4_Witness ==
    /\ Completed
    /\ Len(comments) = 2
    /\ \A i \in 1..2 : OutcomeOf(i).body = PyStr(comments[i].text)
    /\ translated_content = pgn_content

(***************************************************************************)
(* C5                                                                      *)
(***************************************************************************)
\* C5: every call of translate_text returns a string to translate_pgn (no
\* exception escapes, None is never returned), and the original text on
\* every failure.
C5_AlwaysAString ==
    /\ ~Aborted
    /\ \A k \in 1..Len(returned) :
          /\ returned[k].type = "str"
          /\ ~Succeeded(outcomes[k]) => returned[k] = PyStr(requests[k].q)

(***************************************************************************)
(* C6                                                                      *)
(***************************************************************************)
\* the spans are in ascending order, do not overlap, and each is delimited
\* by "{" at start and "}" at end - 1 with text the characters in between
SpansDelimit(content, cs) ==
    \A i \in 1..Len(cs) :
        /\ 0 <= cs[i].start
        /\ cs[i].start + 1 < cs[i].end
        /\ cs[i].end <= Len(content)
        /\ content[cs[i].start + 1] = "{"
        /\ content[cs[i].end] = "}"
        /\ cs[i].text = SubSeq(content, cs[i].start + 2, cs[i].end - 1)
        /\ i < Len(cs) => cs[i].end <= cs[i + 1].start

\* C6 as stated: the located spans are ascending, disjoint, delimited by
\* their markers, and their text contains no delimiter marker.
C6_Original ==
    Located =>
        /\ SpansDelimit(pgn_content, comments)
        /\ \A i \in 1..Len(comments) :
              /\ ~HasChar(comments[i].text, "{")
              /\ ~HasChar(comments[i].text, "}")

\* C6 amended: the located spans are ascending, disjoint, delimited by
\* their markers, and their text contains no close marker (it may contain
\* open markers).
C6_Spans ==
    Located =>
        /\ SpansDelimit(pgn_content, comments)
        /\ \A i \in 1..Len(comments) : ~HasChar(comments[i].text, "}")

C6_Witness ==
    /\ Located
    /\ Len(comments) = 2
    /\ \E i \in 1..2 : HasChar(comments[i].text, "{")

(***************************************************************************)
(* C7                                                                      *)
(***************************************************************************)
\* C7: an open marker with no close marker after it lies in no located
\* span; a text with an open marker and no close marker yields no span and
\* is returned unchanged by translate_pgn.
C7_Unclosed ==
    Located =>
        /\ \A p \in 0..(Len(pgn_content) - 1) :
              (pgn_content[p + 1] = "{" /\ FirstClose(pgn_content, p) = -1) =>
                  \A i \in 1..Len(comments) :
                      ~(comments[i].start <= p /\ p < comments[i].end)
        /\ ~HasChar(pgn_content, "}") =>
              /\ comments = <<>>
              /\ requests = <<>>
              /\ pc \in {"save", "exited"}
              /\ translated_content = pgn_content

C7_Witness ==
    /\ Completed
    /\ pgn_content = ExampleOpen
    /\ comments = <<>>
    /\ translated_content = ExampleOpen

(***************************************************************************)
(* C8                                                                      *)
(***************************************************************************)
\* the service answered the last probe with status 200 / did not
LastProbeOk == probes # <<>> /\ probes[Len(probes)].outcome = "200"
LastProbeFailed == probes # <<>> /\ probes[Len(probes)].outcome # "200"

\* C8: the run ends with 0 exactly when the translation completed and the
\* output was written or when the requested connectivity test succeeded;
\* with 1 on a missing input file, a failed connectivity check, a read
\* error or a write error; and a connectivity failure ends the run only at
\* the pre-flight check, before anything is read, requested or written.
C8_ExitCodes ==
    /\ pc = "exited" =>
          /\ exit_code = 0 <=>
                \/ Completed /\ output_file = "complete"
                \/ test_flag /\ LastProbeOk
          /\ input_exists = "no" => exit_code = 1
          /\ LastProbeFailed =>
                /\ exit_code = 1
                /\ ~was_read /\ requests = <<>> /\ output_file = "untouched"
          /\ (~test_flag /\ LastProbeOk /\ ~was_read) => exit_code = 1
          /\ (Completed /\ output_file # "complete") => exit_code = 1
    /\ (was_read \/ requests # <<>> \/ output_file # "untouched") =>
          Len(probes) = 1 /\ LastProbeOk
    /\ \A k \in 1..Len(outcomes) :
          outcomes[k].kind \in {"connection_error", "timeout"} =>
              Len(returned) >= k

C8_Witness ==
    /\ pc = "exited"
    /\ exit_code = 0
    /\ output_file = "complete"
    /\ \E k \in 1..Len(outcomes) : outcomes[k].kind = "connection_error"

(***************************************************************************)
(* C9                                                                      *)
(***************************************************************************)
\* C9 as stated: in remote mode with no credential configured the
\* connectivity probe is still sent, without a credential.
C9_Original ==
    (pc = "exited" /\ test_flag /\ prompted) =>
        \E k \in 1..Len(probes) : ~probes[k].offline /\ ~probes[k].sent_key

\* C9 amended: in remote mode with no credential configured the constructor
\* prompts for one and the run exits with 1 before any probe unless one is
\* entered, so every probe in remote mode carries a credential; a 403 on a
\* remote probe is reported as a credential problem, apart from every other
\* failure; in offline mode no credential is asked for and none is sent.
C9_Credential ==
    /\ prompted => ~is_offline
    /\ (prompted /\ api_key = NoKey) =>
          pc = "exited" /\ exit_code = 1 /\ probes = <<>>
    /\ \A k \in 1..Len(probes) :
          LET p == probes[k] IN
          /\ p.offline = is_offline
          /\ p.sent_key = ~p.offline
          /\ ~p.offline => api_key # NoKey
          /\ p.report = "api_key_invalid_or_required"
                <=> (~p.offline /\ p.outcome = "403")
          /\ p.report = "none" <=> p.ok

C9_Witness ==
    /\ prompted
    /\ api_key = TypedKey
    /\ \E k \in 1..Len(probes) :
          probes[k].report = "api_key_invalid_or_required"

(***************************************************************************)
(* C10                                                                     *)
(***************************************************************************)
\* C10: the spans are processed from the highest offset down, and before
\* each iteration the buffer equals the original text below the end offset
\* of the span about to be processed, so the offsets of every span not yet
\* processed still delimit it in the buffer.
C10_BackToFront ==
    /\ Located =>
          \A k \in 1..Len(requests) :
              /\ requests[k].q = comments[Len(comments) + 1 - k].text
              /\ k > 1 => comments[Len(comments) + 1 - k].end
                              <= comments[Len(comments) + 2 - k].start
    /\ pc = "loop" =>
          LET c == comments[Len(comments) - done] IN
          /\ SubSeq(translated_content, 1, c.end) = SubSeq(pgn_content, 1, c.end)
          /\ SpansDelimit(translated_content,
                          SubSeq(comments, 1, Len(comments) - done))

C10_Witness ==
    /\ pc = "loop"
    /\ done = 1
    /\ Len(translated_content) # Len(pgn_content)

====
